---- MODULE Spec2Model ----
(***************************************************************************)
(* Ingestion, persistence and retrieval core of chat-with-repo:            *)
(* CodeIngester (ingest.py), CodeChat (chat.py) and the index-creation     *)
(* endpoint (backend/app/main.py).                                         *)
(*                                                                         *)
(* Text is a sequence of characters.  Every character is one byte (ASCII), *)
(* so len(text.encode('utf-8')) = len(text) = Len(text).                   *)
(***************************************************************************)
EXTENDS Integers, Sequences, FiniteSets, TLC

\* ------------------------------------------------------------------ bounds
\* longest file content, in characters
MaxChars == 4
\* CodeIngester.chunk_size (constructor argument), scaled down
ChunkSize == 2
\* search_similar's initial_k argument, scaled down
InitialK == 3

\* ------------------------------------------------------------------ text
NL == "\n"
SP == " "

IsSpace(c) == c \in {NL, SP}

RECURSIVE LStrip(_)
LStrip(t) == IF t = <<>> THEN <<>>
             ELSE IF IsSpace(Head(t)) THEN LStrip(Tail(t)) ELSE t

RECURSIVE RStrip(_)
RStrip(t) == IF t = <<>> THEN <<>>
             ELSE IF IsSpace(t[Len(t)]) THEN RStrip(SubSeq(t, 1, Len(t) - 1)) ELSE t

\* str.strip()
Strip(t) == RStrip(LStrip(t))

\* str.split('\n'): always at least one line
RECURSIVE SplitFrom(_, _)
SplitFrom(t, cur) ==
    IF t = <<>> THEN <<cur>>
    ELSE IF Head(t) = NL THEN <<cur>> \o SplitFrom(Tail(t), <<>>)
    ELSE SplitFrom(Tail(t), Append(cur, Head(t)))

Split(t) == SplitFrom(t, <<>>)

\* '\n'.join(lines)
RECURSIVE Join(_)
Join(ls) == IF ls = <<>> THEN <<>>
            ELSE IF Len(ls) = 1 THEN ls[1]
            ELSE ls[1] \o <<NL>> \o Join(Tail(ls))

\* all texts over an alphabet, up to n characters
RECURSIVE TextsUpTo(_, _)
TextsUpTo(alphabet, n) ==
    IF n = 0 THEN {<<>>}
    ELSE LET shorter == TextsUpTo(alphabet, n - 1)
         IN  shorter \cup {Append(t, c) : t \in {s \in shorter : Len(s) = n - 1}, c \in alphabet}

\* tiktoken's encoder is a fixed function of the text; one token per character here
count_tokens(text) == Len(text)

\* ------------------------------------------------------------------ values
None == "None"
\* an option is a sequence of length 0 (nothing) or 1 (a value)
NoDir == <<>>
NoFile == <<>>
NoPath == <<>>
Some(v) == <<v>>

\* file names and the two string tests the walk applies to them
FileNames == {"m.py", "n.py", "t.txt", ".h.py"}
AllowedExt(name) == name \in {"m.py", "n.py", ".h.py"}
Language(name) == IF name = "t.txt" THEN "txt" ELSE "py"

\* outcomes of one call of the embedding service
Outcomes == {"ok", "raise", "baddim"}

\* the embedding of a text; `of` identifies the chunk it was computed for
Embedding(text, file, start) == [emb |-> text, of |-> <<file, start>>]

VARIABLES
    fs,                  \* source directories: path -> sequence of files, or NoDir
    metadata,            \* CodeIngester.metadata
    index,               \* CodeIngester.index: the vectors, in insertion order
    current_index_name,  \* CodeIngester.current_index_name
    current_index,       \* CodeChat.current_index (None: attribute not set)
    disk,                \* backend/indices: name -> contents of the unit directory
    legacy,              \* backend/indices: names n with a flat file n.index
    status,              \* index_progress.status
    pc,                  \* position of the running operation
    req,                 \* the callers of the running operation
    pd,                  \* locals of process_directory
    sv,                  \* locals of save_state
    sr,                  \* locals of search_similar
    ret,                 \* the last return value
    callers,             \* MetadataTracker.callers
    callees,             \* MetadataTracker.callees
    calls,               \* the pairs <<caller, callee>> given to add_call_relationship
    active_connections,  \* ConnectionManager.active_connections
    progress_connections,\* ConnectionManager.progress_connections
    chats,               \* the keys of ConnectionManager.chats
    connected            \* websocket -> where its endpoint call stands, and its index_id

trackerVars == <<callers, callees, calls>>

managerVars == <<active_connections, progress_connections, chats, connected>>

vars == <<fs, metadata, index, current_index_name, current_index, disk, legacy,
          status, pc, req, pd, sv, sr, ret, trackerVars, managerVars>>

\* MetadataTracker.__init__: both dicts are empty
TrackerInit ==
    /\ callers = <<>>
    /\ callees = <<>>
    /\ calls = {}

\* the websockets of the clients; each is accepted by one endpoint call
WS == {"w1", "w2"}

\* a websocket no endpoint has been called with yet
NewSocket == [at |-> "new", index_id |-> None]

\* ConnectionManager.__init__
ManagerInit ==
    /\ active_connections = <<>>
    /\ progress_connections = <<>>
    /\ chats = {}
    /\ connected = [w \in WS |-> NewSocket]

\* ------------------------------------------------------------------ source directories
Paths == {<<"x", "a">>, <<"y", "a">>, <<"x", "b">>, <<"">>}

\* the path "/", whose basename is the empty name
RootPath == <<"">>

\* os.path.basename(os.path.normpath(repo_path))
Basename(p) == p[Len(p)]

\* the names of persisted units
Names == {Basename(p) : p \in Paths}

\* a unit directory: whether it exists, its files metadata.json and index.faiss (each
\* NoFile or Some(content)) and whether a file embeddings.npy is in it
Unit(meta, faiss, npy) == [dir |-> TRUE, meta |-> meta, faiss |-> faiss, npy |-> npy]
EmptyDir == Unit(NoFile, NoFile, FALSE)
Absent == [dir |-> FALSE, meta |-> NoFile, faiss |-> NoFile, npy |-> FALSE]

\* directories below the ingested root ("" is the root itself)
DirNames == {"", "src", ".hid", "venv"}
StartsWithDot(d) == d \in {".hid", ".h.py"}
Excluded(d) == d \in {"venv", "env", ".git", "__pycache__", "node_modules"}

\* a file of a tree: [under |-> directory, name |-> file name, content |-> text]
\* the files os.walk hands to the loop body: those under a directory that is not pruned,
\* with an allowed extension
Walked(f) == /\ ~(f.under # "" /\ (StartsWithDot(f.under) \/ Excluded(f.under)))
             /\ AllowedExt(f.name)

Walk(tree) == SelectSeq(tree, Walked)

RelPath(f) == <<f.under, f.name>>

\* ------------------------------------------------------------------ process_directory
PdIdle == [directory |-> NoPath, files |-> <<>>, fi |-> 0, lines |-> <<>>, i |-> 0,
           current_chunk |-> <<>>, current_chunk_start |-> 1, total_chunks |-> 0,
           files_processed |-> 0, files_with_content |-> 0,
           embedded_all |-> TRUE,   \* no embedding call of this walk has failed so far
           held |-> FALSE]          \* the ingester held entries or vectors at the call

SvIdle == [name |-> None, old |-> Absent, result |-> "none", at |-> "validation"]
SrIdle == [available_tokens |-> 0, cands |-> <<>>, groups |-> <<>>, g |-> 0, c |-> 0,
           results |-> <<>>, total_tokens |-> 0]

NoReq == [fn |-> "none", endpoint |-> FALSE, name |-> None, directory |-> NoPath]

\* the vector index after one chunk whose embedding call ended with outcome o
IndexAfterChunkNoDimCheck(idx, o, vec) ==
    IF o \in {"ok", "baddim"} THEN Append(idx, vec) ELSE idx

IndexAfterChunk(idx, o, vec) ==
    IF o = "ok" THEN Append(idx, vec) ELSE idx

\* the metadata after one chunk whose embedding call ended with outcome o
MetadataAfterChunk(md, o, rec) ==
    IF o = "ok" THEN Append(md, rec) ELSE md

chunk_metadata(f, chunk_text, start, end) ==
    [file |-> RelPath(f), content |-> chunk_text, start_line |-> start,
     end_line |-> end, language |-> Language(f.name), size |-> Len(chunk_text)]

\* the final validation of process_directory
PdFinalValue(total_chunks, md, idx) ==
    /\ ~(total_chunks = 0 \/ Len(md) = 0 \/ Len(idx) = 0)
    /\ Len(md) = Len(idx)

\* what process_directory hands to its caller: the value v; arg records whether the
\* ingester held anything when it was called
PdResult(v, held) ==
    [op |-> "process_directory", val |-> v, arg |-> IF held THEN "held" ELSE None]

\* process_directory returns v to its caller
PdReturn(v) ==
    /\ ret' = PdResult(v, pd.held)
    /\ pc' = IF req.fn = "create_new_index" THEN "cni_save" ELSE "idle"

\* an entry that leaves metadata and index as they are
PdEnterKeepsState(d) ==
    /\ UNCHANGED <<metadata, index>>
    /\ IF fs[d] = NoDir
       THEN /\ ret' = PdResult(FALSE, metadata # <<>> \/ index # <<>>)
            /\ pc' = "idle"
            /\ pd' = PdIdle
       ELSE /\ pd' = [PdIdle EXCEPT !.directory = d, !.files = Walk(fs[d][1]),
                                    !.held = metadata # <<>> \/ index # <<>>]
            /\ pc' = "pd_file"
            /\ ret' = ret

\* entry of process_directory(d): reset, then the existence test
PdEnter(d) ==
    /\ metadata' = <<>>
    /\ index' = <<>>
    /\ IF fs[d] = NoDir
       THEN /\ ret' = PdResult(FALSE, metadata # <<>> \/ index # <<>>)
            /\ pc' = "idle"
            /\ pd' = PdIdle
       ELSE /\ pd' = [PdIdle EXCEPT !.directory = d, !.files = Walk(fs[d][1]),
                                    !.held = metadata # <<>> \/ index # <<>>]
            /\ pc' = "pd_file"
            /\ ret' = ret

\* a direct call, as run.py and the tests make it
process_directory(d) ==
    /\ pc = "idle"
    /\ req' = NoReq
    /\ PdEnter(d)
    /\ sv' = SvIdle
    /\ sr' = SrIdle
    /\ UNCHANGED <<trackerVars, managerVars, fs, current_index_name, current_index, disk, legacy, status>>

\* the walk reaches the next file, or its end
ProcessDirectoryFile ==
    /\ pc = "pd_file"
    /\ IF pd.fi = Len(pd.files)
       THEN /\ PdReturn(PdFinalValue(pd.total_chunks, metadata, index))
            /\ pd' = PdIdle
       ELSE LET f == pd.files[pd.fi + 1]
                content == Strip(f.content)
                counted == [pd EXCEPT !.files_processed = @ + 1]
            IN  /\ ret' = ret
                /\ IF Len(f.content) = 0 \/ content = <<>>
                   THEN /\ pd' = [counted EXCEPT !.fi = @ + 1]
                        /\ pc' = "pd_file"
                   ELSE /\ pd' = [counted EXCEPT !.lines = Split(content), !.i = 0,
                                                 !.current_chunk = <<>>,
                                                 !.current_chunk_start = 1]
                        /\ pc' = "pd_line"
    /\ UNCHANGED <<trackerVars, managerVars, fs, metadata, index, current_index_name, current_index, disk, legacy,
                   status, req, sv, sr>>

\* one iteration of the loop over the lines of the current file
ProcessDirectoryLine ==
    /\ pc = "pd_line"
    /\ \E o \in Outcomes :
         LET f == pd.files[pd.fi + 1]
             i == pd.i + 1
             current_chunk == Append(pd.current_chunk, pd.lines[i])
             chunk_text == Join(current_chunk)
             closes == Len(chunk_text) >= ChunkSize \/ i = Len(pd.lines)
             embeds == closes /\ Strip(chunk_text) # <<>>
             added == embeds /\ o = "ok"
             total == IF added THEN pd.total_chunks + 1 ELSE pd.total_chunks
             last == i = Len(pd.lines)
         IN  /\ index' = IF embeds
                         THEN IndexAfterChunk(index, o,
                                  Embedding(chunk_text, RelPath(f), pd.current_chunk_start))
                         ELSE index
             /\ metadata' = IF embeds
                            THEN MetadataAfterChunk(metadata, o,
                                     chunk_metadata(f, chunk_text, pd.current_chunk_start, i))
                            ELSE metadata
             /\ pd' = [pd EXCEPT
                         !.i = IF last THEN 0 ELSE i,
                         !.lines = IF last THEN <<>> ELSE @,
                         !.current_chunk = IF added \/ last THEN <<>> ELSE current_chunk,
                         !.current_chunk_start = IF last THEN 1
                                                 ELSE IF added THEN i + 1 ELSE @,
                         !.total_chunks = total,
                         !.embedded_all = IF embeds /\ o # "ok" THEN FALSE ELSE @,
                         !.files_with_content =
                             IF last /\ total > pd.files_processed THEN @ + 1 ELSE @,
                         !.fi = IF last THEN @ + 1 ELSE @]
             /\ pc' = IF last THEN "pd_file" ELSE "pd_line"
    /\ UNCHANGED <<trackerVars, managerVars, fs, current_index_name, current_index, disk, legacy, status, req,
                   sv, sr, ret>>

\* an exception outside the per-file try (the print of line 258) ends the walk
ProcessDirectoryAbort ==
    /\ pc = "pd_file"
    /\ pd.fi < Len(pd.files)
    /\ PdReturn(FALSE)
    /\ pd' = PdIdle
    /\ UNCHANGED <<trackerVars, managerVars, fs, metadata, index, current_index_name, current_index, disk, legacy,
                   status, req, sv, sr>>

\* ------------------------------------------------------------------ the index store
\* json.dump / json.load of the metadata list: an array of objects, each member a
\* key with a JSON number or a JSON string
IntKeys == {"start_line", "end_line", "size", "start_pos", "end_pos", "tokens"}

JsonValue(k, v) == IF k \in IntKeys THEN [t |-> "number", v |-> v]
                   ELSE [t |-> "string", v |-> v]

ToJson(md) == [i \in 1..Len(md) |-> [k \in DOMAIN md[i] |-> JsonValue(k, md[i][k])]]

FromJson(js) == [i \in 1..Len(js) |-> [k \in DOMAIN js[i] |-> js[i][k].v]]


\* os.path.join(self.indices_dir, name) is backend/indices itself for the empty name:
\* disk[RootName] holds the files that lie directly in backend/indices
RootName == ""

\* list_available_indices: the directories in backend/indices and the flat files
list_available_indices ==
    {n \in Names \ {RootName} : disk[n].dir /\ disk[n].meta # NoFile /\ disk[n].npy}
    \cup legacy

\* shutil.rmtree(index_dir): the directory and all that lies in it
Rmtree(store, n) ==
    IF n = RootName THEN [m \in Names |-> Absent] ELSE [store EXCEPT ![n] = Absent]

\* a validation that tests for empty state only
SaveValidNoCountTest(md, idx) == ~(Len(md) = 0 \/ Len(idx) = 0)

\* the validation of save_state
SaveValid(md, idx) ==
    /\ ~(Len(md) = 0 \/ Len(idx) = 0)
    /\ Len(md) = Len(idx)

\* what the caller of save_state does with its value v, and the return to idle
SaveReturn(v) ==
    /\ pc' = "idle"
    /\ req' = NoReq
    /\ IF req.fn = "create_new_index"
       THEN /\ current_index' = IF v THEN req.name ELSE current_index
            /\ status' = IF req.endpoint
                         THEN (IF v THEN "completed" ELSE "failed")
                         ELSE status
            /\ ret' = [op |-> IF req.endpoint THEN "create_index" ELSE "create_new_index",
                       val |-> v,
                       arg |-> IF req.endpoint THEN (IF v THEN "200" ELSE "500")
                               ELSE req.name]
       ELSE /\ current_index' = current_index
            /\ status' = status
            /\ ret' = [op |-> "save_state", val |-> v, arg |-> sv'.name]

\* entry of save_state(n): the validation
SaveEnter(n) ==
    LET entered == [name |-> n, old |-> disk[n], result |-> "none", at |-> "validation"]
    IN  IF SaveValid(metadata, index)
        THEN /\ sv' = entered
             /\ pc' = "sv_rmtree"
             /\ UNCHANGED <<current_index, status, ret, req>>
        ELSE /\ sv' = [entered EXCEPT !.result = "False"]
             /\ SaveReturn(FALSE)

save_state(n) ==
    /\ pc = "idle"
    /\ req.fn = "none"
    /\ SaveEnter(n)
    /\ sr' = SrIdle
    /\ UNCHANGED <<trackerVars, managerVars, fs, metadata, index, current_index_name, disk, legacy, pd>>

\* the directory is created only when it does not exist, and never emptied
SaveStateKeepsDirectory ==
    /\ pc = "sv_rmtree"
    /\ disk' = [disk EXCEPT ![sv.name] = IF @.dir THEN @ ELSE EmptyDir]
    /\ sv' = [sv EXCEPT !.at = "metadata"]
    /\ pc' = "sv_meta"
    /\ UNCHANGED <<trackerVars, managerVars, fs, metadata, index, current_index_name, current_index, legacy,
                   status, req, pd, sr, ret>>

\* shutil.rmtree(index_dir) when the directory exists
SaveStateRmtree ==
    /\ pc = "sv_rmtree"
    /\ disk' = Rmtree(disk, sv.name)
    /\ legacy' = IF sv.name = RootName THEN {} ELSE legacy
    /\ sv' = [sv EXCEPT !.at = "mkdir"]
    /\ pc' = "sv_mkdir"
    /\ UNCHANGED <<trackerVars, managerVars, fs, metadata, index, current_index_name, current_index,
                   status, req, pd, sr, ret>>

\* os.makedirs(index_dir)
SaveStateMkdir ==
    /\ pc = "sv_mkdir"
    /\ disk' = [disk EXCEPT ![sv.name] = EmptyDir]
    /\ sv' = [sv EXCEPT !.at = "metadata"]
    /\ pc' = "sv_meta"
    /\ UNCHANGED <<trackerVars, managerVars, fs, metadata, index, current_index_name, current_index, legacy,
                   status, req, pd, sr, ret>>

\* json.dump(self.metadata, f)
SaveStateMetadata ==
    /\ pc = "sv_meta"
    /\ disk' = [disk EXCEPT ![sv.name].meta = Some(ToJson(metadata))]
    /\ sv' = [sv EXCEPT !.at = "faiss"]
    /\ pc' = "sv_faiss"
    /\ UNCHANGED <<trackerVars, managerVars, fs, metadata, index, current_index_name, current_index, legacy,
                   status, req, pd, sr, ret>>

\* faiss.write_index, the verification of the two files, and the successful return
SaveStateFaiss ==
    /\ pc = "sv_faiss"
    /\ disk' = [disk EXCEPT ![sv.name].faiss = Some(index)]
    /\ current_index_name' = sv.name
    /\ sv' = [sv EXCEPT !.result = "True", !.at = "done"]
    /\ SaveReturn(TRUE)
    /\ UNCHANGED <<trackerVars, managerVars, fs, metadata, index, legacy, pd, sr>>

\* the pending file operation raises: the except clause returns False
SaveStateFail ==
    /\ pc \in {"sv_rmtree", "sv_mkdir", "sv_meta", "sv_faiss"}
    /\ sv' = [sv EXCEPT !.result = "False"]
    /\ SaveReturn(FALSE)
    /\ UNCHANGED <<trackerVars, managerVars, fs, metadata, index, current_index_name, disk, legacy, pd, sr>>

\* what load_state reads from a unit directory u into an ingester holding (md, idx)
LoadState(u, md, idx) ==
    IF ~u.dir THEN [ok |-> FALSE, metadata |-> md, index |-> idx]
    ELSE IF u.meta = NoFile THEN [ok |-> FALSE, metadata |-> md, index |-> idx]
    ELSE IF u.faiss = NoFile
         THEN [ok |-> FALSE, metadata |-> FromJson(u.meta[1]), index |-> idx]
    ELSE [ok |-> TRUE, metadata |-> FromJson(u.meta[1]), index |-> u.faiss[1]]

\* CodeIngester.load_state(n) on the ingester in use
load_state(n) ==
    /\ pc = "idle"
    /\ LET r == LoadState(disk[n], metadata, index)
       IN  /\ metadata' = r.metadata
           /\ index' = r.index
           /\ ret' = [op |-> "load_state", val |-> r.ok, arg |-> n]
    /\ sv' = SvIdle
    /\ sr' = SrIdle
    /\ UNCHANGED <<trackerVars, managerVars, fs, current_index_name, current_index, disk, legacy, status, pc, req, pd>>

\* CodeChat.load_index(n): a new CodeIngester unless n is the current index
load_index(n) ==
    /\ pc = "idle"
    /\ IF current_index # n
       THEN LET r == LoadState(disk[n], <<>>, <<>>)
            IN  /\ metadata' = r.metadata
                /\ index' = r.index
                /\ current_index_name' = None
                /\ current_index' = IF r.ok THEN n ELSE current_index
                /\ ret' = [op |-> "load_index", val |-> r.ok, arg |-> n]
       ELSE /\ ret' = [op |-> "load_index", val |-> TRUE, arg |-> n]
            /\ UNCHANGED <<metadata, index, current_index_name, current_index>>
    /\ sv' = SvIdle
    /\ sr' = SrIdle
    /\ UNCHANGED <<trackerVars, managerVars, fs, disk, legacy, status, pc, req, pd>>

\* the body of CodeChat.create_new_index(d, n) up to the walk: a new CodeIngester and
\* the entry of process_directory
CreateNewIndexEnter(d, n, endpoint) ==
    /\ req' = [fn |-> "create_new_index", endpoint |-> endpoint, name |-> n,
               directory |-> d]
    /\ current_index_name' = None
    /\ metadata' = <<>>
    /\ index' = <<>>
    /\ IF fs[d] = NoDir
       THEN /\ pc' = "cni_save"
            /\ pd' = PdIdle
            /\ ret' = [op |-> "process_directory", val |-> FALSE, arg |-> None]
       ELSE /\ pd' = [PdIdle EXCEPT !.directory = d, !.files = Walk(fs[d][1])]
            /\ pc' = "pd_file"
            /\ ret' = ret

\* CodeChat.create_new_index(d, n), called on the CodeChat in use
create_new_index(d, n) ==
    /\ pc = "idle"
    /\ CreateNewIndexEnter(d, n, FALSE)
    /\ sv' = SvIdle
    /\ sr' = SrIdle
    /\ UNCHANGED <<trackerVars, managerVars, fs, current_index, disk, legacy, status>>

\* POST /api/indices/create with repo_path d: 404 for a path that does not exist, then
\* the progress update, a new CodeChat, 400 for a listed name, and create_new_index
create_index(d) ==
    /\ pc = "idle"
    /\ IF fs[d] = NoDir
       THEN /\ ret' = [op |-> "create_index", val |-> FALSE, arg |-> "404"]
            /\ UNCHANGED <<metadata, index, current_index_name, current_index, status,
                           pc, req, pd>>
       ELSE /\ status' = "starting"
            /\ current_index' = None
            /\ IF Basename(d) \in list_available_indices
               THEN /\ ret' = [op |-> "create_index", val |-> FALSE, arg |-> "400"]
                    /\ metadata' = <<>>
                    /\ index' = <<>>
                    /\ current_index_name' = None
                    /\ UNCHANGED <<pc, req, pd>>
               ELSE CreateNewIndexEnter(d, Basename(d), TRUE)
    /\ sv' = SvIdle
    /\ sr' = SrIdle
    /\ UNCHANGED <<trackerVars, managerVars, fs, disk, legacy>>

\* create_new_index goes on to save_state whatever process_directory returned
CreateNewIndexSave ==
    /\ pc = "cni_save"
    /\ SaveEnter(req.name)
    /\ UNCHANGED <<trackerVars, managerVars, fs, metadata, index, current_index_name, disk, legacy, pd, sr>>

\* ------------------------------------------------------------------ initial states

\* a freshly constructed CodeChat with its CodeIngester, and an empty backend/indices
InitProgram ==
    /\ metadata = <<>>
    /\ index = <<>>
    /\ current_index_name = None
    /\ current_index = None
    /\ disk = [n \in Names |-> Absent]
    /\ legacy = {}
    /\ status = "idle"
    /\ pc = "idle"
    /\ req = NoReq
    /\ pd = PdIdle
    /\ sv = SvIdle
    /\ sr = SrIdle
    /\ ret = [op |-> "none", val |-> FALSE, arg |-> None]
    /\ TrackerInit
    /\ ManagerInit

\* the directory ingested in SpecIngest, and a path that does not exist
DirA == <<"x", "a">>
DirB == <<"x", "b">>

File(u, n, c) == [under |-> u, name |-> n, content |-> c]

\* trees of SpecIngest: a first source file of any content without a marker, or one
\* of two files with a decorator line ("@" is a boundary marker of .py), optionally
\* followed by a second file that is a source file, a file of another extension, a
\* hidden source file or a file of a pruned directory
IngestTrees ==
    LET texts == TextsUpTo({"a", NL}, MaxChars)
        short == TextsUpTo({"a", NL}, 2)
        first == {File("", "m.py", c) : c \in texts}
                 \cup {File("", "m.py", <<"a", NL, "@">>), File("", "m.py", <<"@", NL, "@">>)}
        second == {File("", "n.py", c) : c \in short}
                  \cup {File("", "t.txt", <<"a">>), File("", ".h.py", <<"a">>),
                        File(".hid", "n.py", <<"a">>),
                        File("venv", "n.py", <<"a">>), File("src", "n.py", <<"a">>)}
    IN  {<<>>} \cup {<<f>> : f \in first} \cup {<<f, g>> : f \in first, g \in second}

InitIngest ==
    /\ InitProgram
    /\ \E t \in IngestTrees : fs = [p \in Paths |-> IF p = DirA THEN Some(t) ELSE NoDir]

NextIngest ==
    \/ \E d \in {DirA, DirB} : process_directory(d)
    \/ ProcessDirectoryFile
    \/ ProcessDirectoryLine
    \/ ProcessDirectoryAbort

SpecIngest == InitIngest /\ [][NextIngest]_vars

\* ------------------------------------------------------------------ SmartChunker
Ext(name) == IF name = "t.txt" THEN ".txt" ELSE ".py"

SupportedExt == {".py", ".js", ".ts", ".jsx", ".tsx"}

JsMarkers == {<<"f", "u", "n", "c", "t", "i", "o", "n", " ">>, <<"c", "l", "a", "s", "s", " ">>,
              <<"i", "m", "p", "o", "r", "t", " ">>, <<"e", "x", "p", "o", "r", "t", " ">>,
              <<"c", "o", "n", "s", "t", " ">>, <<"l", "e", "t", " ">>}
TsMarkers == {<<"f", "u", "n", "c", "t", "i", "o", "n", " ">>, <<"c", "l", "a", "s", "s", " ">>,
              <<"i", "n", "t", "e", "r", "f", "a", "c", "e", " ">>, <<"t", "y", "p", "e", " ">>,
              <<"i", "m", "p", "o", "r", "t", " ">>, <<"e", "x", "p", "o", "r", "t", " ">>}
PyMarkers == {<<"d", "e", "f", " ">>, <<"c", "l", "a", "s", "s", " ">>, <<"@">>,
              <<"i", "m", "p", "o", "r", "t", " ">>, <<"f", "r", "o", "m", " ">>}

language_markers(ext) ==
    IF ext = ".py" THEN PyMarkers
    ELSE IF ext \in {".js", ".jsx"} THEN JsMarkers
    ELSE IF ext \in {".ts", ".tsx"} THEN TsMarkers
    ELSE {}

\* str.startswith
StartsWith(t, m) == Len(t) >= Len(m) /\ SubSeq(t, 1, Len(m)) = m

create_chunk(lines_list) ==
    [content |-> Join(lines_list), type |-> "code", tokens |-> count_tokens(Join(lines_list))]

\* a test that starts a new chunk at boundary lines only
StartsNewChunkAtBoundaryOnly(is_boundary, current_chunk, current_tokens, line_tokens, limit) ==
    is_boundary /\ current_chunk # <<>>

\* the test of _find_chunk_boundaries that closes the buffer before the current line
StartsNewChunk(is_boundary, current_chunk, current_tokens, line_tokens, limit) ==
    \/ (is_boundary /\ current_chunk # <<>>)
    \/ (current_tokens + line_tokens > limit /\ current_chunk # <<>>)

\* the loop of _find_chunk_boundaries from line k on, and the final flush
RECURSIVE FindChunksFrom(_, _, _, _, _, _, _)
FindChunksFrom(lines, k, markers, max_tokens, current_chunk, current_tokens, chunks) ==
    IF k > Len(lines)
    THEN IF current_chunk # <<>> THEN Append(chunks, create_chunk(current_chunk)) ELSE chunks
    ELSE LET line == lines[k]
             is_boundary == \E marker \in markers : StartsWith(Strip(line), marker)
             line_tokens == count_tokens(Append(line, NL))
             flush == StartsNewChunk(is_boundary, current_chunk, current_tokens,
                                     line_tokens, max_tokens)
         IN  IF flush
             THEN FindChunksFrom(lines, k + 1, markers, max_tokens, <<line>>, line_tokens,
                                 Append(chunks, create_chunk(current_chunk)))
             ELSE FindChunksFrom(lines, k + 1, markers, max_tokens,
                                 Append(current_chunk, line), current_tokens + line_tokens,
                                 chunks)

\* a chunker that strips the content before it splits it
find_chunk_boundaries_stripped(content, file_ext, limit) ==
    FindChunksFrom(Split(Strip(content)), 1, language_markers(file_ext), limit, <<>>, 0, <<>>)

find_chunk_boundaries(content, file_ext, max_tokens) ==
    FindChunksFrom(Split(content), 1, language_markers(file_ext), max_tokens, <<>>, 0, <<>>)

\* the path process_file is called with: the directory, then the path below it
FullPath(d, f) == d \o <<f.under, f.name>>

chunk_file(d, f, max_tokens) ==
    IF Ext(f.name) \notin SupportedExt THEN <<>>
    ELSE IF Strip(f.content) = <<>> THEN <<>>
    ELSE LET chunks == find_chunk_boundaries(f.content, Ext(f.name), max_tokens)
         IN  [j \in 1..Len(chunks) |->
                [content |-> chunks[j].content, type |-> chunks[j].type,
                 tokens |-> chunks[j].tokens, file_path |-> FullPath(d, f),
                 language |-> Language(f.name)]]

\* ------------------------------------------------------------------ process_file
Min(a, b) == IF a < b THEN a ELSE b

\* the fixed-size windows of the fallback
BasicChunks(d, f, chunk_size) ==
    LET n == Len(f.content)
        count == (n + chunk_size - 1) \div chunk_size
    IN  [j \in 1..count |->
           LET i == (j - 1) * chunk_size
           IN  [content |-> SubSeq(f.content, i + 1, Min(i + chunk_size, n)),
                file_path |-> FullPath(d, f), type |-> "text",
                start_pos |-> i, end_pos |-> Min(i + chunk_size, n)]]

\* the chunks process_file embeds: none for a blank file
FileChunks(d, f) ==
    LET smart == chunk_file(d, f, ChunkSize)
    IN  IF smart # <<>> THEN smart
        ELSE IF Strip(f.content) = <<>> THEN <<>>
        ELSE BasicChunks(d, f, ChunkSize)

\* the ordinal of a chunk of a file stands for its position in the embedding's `of`
ChunkVectors(chunks) ==
    [j \in 1..Len(chunks) |-> Embedding(chunks[j].content, chunks[j].file_path, j)]

\* longest index the model lets process_file grow
MaxVectors == 3

\* process_file(path of file f of directory d): the first failing embedding call ends
\* the loop; `good` is the number of chunks embedded before it
process_file(d, f) ==
    /\ pc = "idle"
    /\ LET chunks == FileChunks(d, f)
       IN  /\ Len(index) + Len(chunks) <= MaxVectors
           /\ \E good \in 0..Len(chunks) :
                /\ index' = index \o SubSeq(ChunkVectors(chunks), 1, good)
                /\ metadata' = metadata \o SubSeq(chunks, 1, good)
    /\ ret' = [op |-> "process_file", val |-> TRUE, arg |-> None]
    /\ sv' = SvIdle
    /\ sr' = SrIdle
    /\ UNCHANGED <<trackerVars, managerVars, fs, current_index_name, current_index, disk, legacy, status, pc, req, pd>>

\* ------------------------------------------------------------------ search_similar
max_tokens == 128000
max_response_tokens == 4096
SafetyBuffer == 500
\* count_tokens(system_prompt): the prompt has 311 characters
SystemPromptTokens == 311

AvailableTokens(query_tokens) ==
    max_tokens - SystemPromptTokens - query_tokens - max_response_tokens - SafetyBuffer

\* dict.get(k, default)
Get(r, k, default) == IF k \in DOMAIN r THEN r[k] ELSE default

Unknown == <<"unknown">>

\* a mutant of WithDistance: the copy carries no distance
WithDistanceMissing(m, d) == m

\* metadata[idx].copy() with result['distance'] set
WithDistance(m, d) ==
    [k \in DOMAIN m \cup {"distance"} |-> IF k = "distance" THEN d ELSE m[k]]

\* faiss returns the k nearest positions, nearest first: any k distinct positions,
\* depending on the query vector; the distance is modelled by the rank
Rankings(n, k) ==
    {r \in [1..k -> 1..n] : \A i, j \in 1..k : i # j => r[i] # r[j]}

\* the copies of the candidates that have a metadata entry, nearest first
RECURSIVE Candidates(_, _, _)
Candidates(md, ranking, i) ==
    IF i > Len(ranking) THEN <<>>
    ELSE (IF ranking[i] <= Len(md) THEN <<WithDistance(md[ranking[i]], i)>> ELSE <<>>)
         \o Candidates(md, ranking, i + 1)

\* the key search_similar groups by, and the key it sorts a group by
GroupKey(r) == Get(r, "file", Unknown)

SortKey(r) == Get(r, "start_line", 0)

\* file_chunks: a dict keeps its keys in insertion order
RECURSIVE GroupBy(_, _)
GroupBy(cands, groups) ==
    IF cands = <<>> THEN groups
    ELSE LET r == Head(cands)
             at == {j \in 1..Len(groups) : groups[j].key = GroupKey(r)}
         IN  IF at = {}
             THEN GroupBy(Tail(cands), Append(groups, [key |-> GroupKey(r), chunks |-> <<r>>]))
             ELSE GroupBy(Tail(cands),
                          [groups EXCEPT ![CHOOSE j \in at : TRUE].chunks = Append(@, r)])

\* list.sort(key=...): stable
RECURSIVE InsertSorted(_, _)
InsertSorted(sorted, r) ==
    IF sorted = <<>> THEN <<r>>
    ELSE IF SortKey(sorted[Len(sorted)]) <= SortKey(r) THEN Append(sorted, r)
    ELSE Append(InsertSorted(SubSeq(sorted, 1, Len(sorted) - 1), r), sorted[Len(sorted)])

RECURSIVE SortChunks(_)
SortChunks(chunks) ==
    IF chunks = <<>> THEN <<>>
    ELSE InsertSorted(SortChunks(SubSeq(chunks, 1, Len(chunks) - 1)), chunks[Len(chunks)])

\* the test of the fill loop
FitsBeforeAdding(total_tokens, chunk_tokens, available_tokens) ==
    total_tokens <= available_tokens

Fits(total_tokens, chunk_tokens, available_tokens) ==
    total_tokens + chunk_tokens <= available_tokens

\* where the loops go on after a chunk: the next chunk, or (break) the next group
AfterChunk(g, c, fits) == IF fits THEN [g |-> g, c |-> c + 1] ELSE [g |-> g + 1, c |-> 0]

\* a test that never finds the index empty
IndexIsEmptyNever(idx) == FALSE

\* self.ingester.index.ntotal == 0
IndexIsEmpty(idx) == Len(idx) = 0

\* what search_similar hands to its caller: val is TRUE for a returned list (the list
\* is sr.results) and FALSE for a raised exception; arg records whether the embedding
\* of the query was requested
SearchResult(returned, requested) ==
    [op |-> "search_similar", val |-> returned,
     arg |-> IF requested THEN "embedding requested" ELSE None]

\* the callers of search_similar: chat_loop, get_response and process_message; a
\* direct call is recorded under the name of search_similar itself
Callers == {"chat_loop", "get_response", "process_message"}

\* a mutant of CallerResult: the caller is handed an empty list when the search raised
CallerResultSwallows(caller, returned, requested, results) ==
    [op |-> caller, val |-> TRUE,
     arg |-> IF caller = "search_similar" THEN "embedding requested"
             ELSE "No relevant code found."]

\* what the caller of search_similar ends with. val is TRUE for a value handed on (the
\* list of search_similar, the answer of chat_loop) and FALSE for a failure.
\*   chat_loop prints "Error: ..." for a raised exception, "No relevant code found."
\*     for an empty list and "Assistant: ..." with the string of get_chat_response
\*     (which catches its own exceptions) otherwise;
\*   get_response logs and re-raises what search_similar raised; with a returned list
\*     it awaits the str of get_chat_response, which raises TypeError, and re-raises;
\*   process_message sends {"type": "error"} for a raised exception; with a returned
\*     list it calls get_response, which raises, and sends {"type": "error"} as well
CallerResult(caller, returned, requested, results) ==
    IF caller = "search_similar" THEN SearchResult(returned, requested)
    ELSE IF caller = "chat_loop"
    THEN [op |-> caller, val |-> returned,
          arg |-> IF ~returned THEN "Error"
                  ELSE IF results = <<>> THEN "No relevant code found."
                  ELSE "Assistant"]
    ELSE IF caller = "get_response"
    THEN [op |-> caller, val |-> FALSE, arg |-> "raise"]
    ELSE [op |-> caller, val |-> FALSE, arg |-> "type: error"]

\* search_similar(query) called by caller: the empty-index test, the query embedding,
\* the search and the grouping; query_tokens = count_tokens(query)
SearchSimilarEnter(query_tokens, caller) ==
    /\ pc = "idle"
    /\ sv' = SvIdle
    /\ IF IndexIsEmpty(index)
       THEN /\ sr' = SrIdle
            /\ ret' = CallerResult(caller, TRUE, FALSE, <<>>)
            /\ pc' = "idle"
            /\ req' = NoReq
       ELSE \E o \in Outcomes :
              IF o # "ok"
              THEN /\ sr' = SrIdle
                   /\ ret' = CallerResult(caller, FALSE, TRUE, <<>>)
                   /\ pc' = "idle"
                   /\ req' = NoReq
              ELSE \E ranking \in Rankings(Len(index), Min(InitialK, Len(index))) :
                     LET cands == Candidates(metadata, ranking, 1)
                         groups == GroupBy(cands, <<>>)
                     IN  /\ sr' = [available_tokens |-> AvailableTokens(query_tokens),
                                   cands |-> cands,
                                   groups |-> [j \in 1..Len(groups) |->
                                                 SortChunks(groups[j].chunks)],
                                   g |-> 1, c |-> 0, results |-> <<>>, total_tokens |-> 0]
                         /\ pc' = "sr_fill"
                         /\ ret' = ret
                         /\ req' = [NoReq EXCEPT !.fn = caller]
    /\ UNCHANGED <<trackerVars, managerVars, fs, metadata, index, current_index_name, current_index, disk, legacy,
                   status, pd>>

\* a direct call of search_similar
search_similar(query_tokens) == SearchSimilarEnter(query_tokens, "search_similar")

\* one query typed into chat_loop
chat_loop(query_tokens) == SearchSimilarEnter(query_tokens, "chat_loop")

\* get_response(message)
get_response(query_tokens) == SearchSimilarEnter(query_tokens, "get_response")

\* process_message(websocket, message) on a connection with a chat session
process_message(query_tokens) == SearchSimilarEnter(query_tokens, "process_message")

\* one step of the loops over the groups and their chunks, or the return
SearchSimilarFill ==
    /\ pc = "sr_fill"
    /\ IF sr.g > Len(sr.groups)
       THEN /\ pc' = "idle"
            /\ ret' = CallerResult(req.fn, TRUE, TRUE, sr.results)
            /\ req' = NoReq
            /\ sr' = sr
       ELSE IF sr.c = Len(sr.groups[sr.g])
       THEN /\ sr' = [sr EXCEPT !.g = @ + 1, !.c = 0]
            /\ UNCHANGED <<pc, ret, req>>
       ELSE LET chunk == sr.groups[sr.g][sr.c + 1]
                chunk_tokens == count_tokens(chunk.content)
                fits == Fits(sr.total_tokens, chunk_tokens, sr.available_tokens)
                next == AfterChunk(sr.g, sr.c, fits)
            IN  /\ sr' = [sr EXCEPT
                            !.results = IF fits THEN Append(@, chunk) ELSE @,
                            !.total_tokens = IF fits THEN @ + chunk_tokens ELSE @,
                            !.g = next.g, !.c = next.c]
                /\ UNCHANGED <<pc, ret, req>>
    /\ UNCHANGED <<trackerVars, managerVars, fs, metadata, index, current_index_name, current_index, disk, legacy,
                   status, pd, sv>>

\* ------------------------------------------------------------------ SpecStore
\* one source directory and paths that do not exist
StoreFs ==
    [p \in Paths |->
        IF p = DirA THEN Some(<<File("", "m.py", <<"a", "a", NL, "a">>)>>) ELSE NoDir]

\* unit directories written by hand or left by an earlier layout of the store: one
\* metadata entry more than vectors, one vector more than metadata entries, one of
\* the two files only, and metadata.json with embeddings.npy
SampleMeta == <<chunk_metadata(File("", "m.py", <<>>), <<"a", "a">>, 1, 1),
                chunk_metadata(File("", "m.py", <<>>), <<"a">>, 2, 2)>>
SampleVectors == <<Embedding(<<"a", "a">>, <<"", "m.py">>, 1),
                   Embedding(<<"a">>, <<"", "m.py">>, 2)>>

ManualUnits ==
    { Unit(Some(ToJson(SampleMeta)), Some(SubSeq(SampleVectors, 1, 1)), FALSE),
      Unit(Some(ToJson(SubSeq(SampleMeta, 1, 1))), Some(SampleVectors), FALSE),
      Unit(Some(ToJson(SampleMeta)), NoFile, FALSE),
      Unit(NoFile, Some(SampleVectors), FALSE),
      Unit(Some(ToJson(SampleMeta)), NoFile, TRUE) }

\* the store holds nothing, or one unit directory "a" that the program did not write
InitStore ==
    /\ fs = StoreFs
    /\ metadata = <<>>
    /\ index = <<>>
    /\ current_index_name = None
    /\ current_index = None
    /\ \E u \in {Absent} \cup ManualUnits : disk = [n \in Names |-> IF n = "a" THEN u ELSE Absent]
    /\ legacy = {}
    /\ status = "idle"
    /\ pc = "idle"
    /\ req = NoReq
    /\ pd = PdIdle
    /\ sv = SvIdle
    /\ sr = SrIdle
    /\ ret = [op |-> "none", val |-> FALSE, arg |-> None]
    /\ TrackerInit
    /\ ManagerInit

\* the names given to the operations of SpecStore: a unit name and the empty name
StoreNames == {"a", RootName}

NextStore ==
    \/ \E d \in {DirA, DirB}, n \in StoreNames : create_new_index(d, n)
    \/ ProcessDirectoryFile
    \/ ProcessDirectoryLine
    \/ ProcessDirectoryAbort
    \/ CreateNewIndexSave
    \/ \E n \in StoreNames : save_state(n)
    \/ SaveStateRmtree
    \/ SaveStateMkdir
    \/ SaveStateMetadata
    \/ SaveStateFaiss
    \/ SaveStateFail
    \/ \E n \in StoreNames : load_state(n)
    \/ \E n \in StoreNames : load_index(n)

SpecStore == InitStore /\ [][NextStore]_vars

\* ------------------------------------------------------------------ SpecSearch
\* largest token budget of the queries
MaxAvailable == 4

\* query lengths that leave a budget of -1 .. MaxAvailable tokens
QueryTokens == {AvailableTokens(0) - a : a \in -1..MaxAvailable}

SearchFiles == <<File("", "m.py", <<"a", "a", NL, "a", "a", NL, "a", "a">>),
                 File("", "t.txt", <<"a", "a", "a">>)>>

SearchFs == [p \in Paths |-> IF p = DirA THEN Some(SearchFiles) ELSE NoDir]

\* an empty store, or a unit "a" whose two files differ in length
InitSearch ==
    /\ fs = SearchFs
    /\ metadata = <<>>
    /\ index = <<>>
    /\ current_index_name = None
    /\ current_index = None
    /\ \E u \in {Absent,
                 Unit(Some(ToJson(SampleMeta)), Some(SubSeq(SampleVectors, 1, 1)), FALSE),
                 Unit(Some(ToJson(SubSeq(SampleMeta, 1, 1))), Some(SampleVectors), FALSE)} :
         disk = [n \in Names |-> IF n = "a" THEN u ELSE Absent]
    /\ legacy = {}
    /\ status = "idle"
    /\ pc = "idle"
    /\ req = NoReq
    /\ pd = PdIdle
    /\ sv = SvIdle
    /\ sr = SrIdle
    /\ ret = [op |-> "none", val |-> FALSE, arg |-> None]
    /\ TrackerInit
    /\ ManagerInit

NextSearch ==
    \/ \E d \in {DirA, DirB} : process_directory(d)
    \/ ProcessDirectoryFile
    \/ ProcessDirectoryLine
    \/ \E j \in 1..Len(SearchFiles) : process_file(DirA, SearchFiles[j])
    \/ load_index("a")
    \/ \E q \in QueryTokens : search_similar(q)
    \/ SearchSimilarFill

SpecSearch == InitSearch /\ [][NextSearch]_vars

\* ------------------------------------------------------------------ SpecEndpoint
\* a second repository whose directory is also called "a"
DirA2 == <<"y", "a">>

EndpointFs ==
    [p \in Paths |->
        IF p = DirA THEN Some(<<File("", "m.py", <<"a", "a", NL, "a">>)>>)
        ELSE IF p = DirA2 THEN Some(<<File("", "n.py", <<"a">>), File("", "m.py", <<"a">>)>>)
        ELSE IF p = RootPath THEN Some(<<File("", "m.py", <<"a">>)>>)
        ELSE NoDir]

\* a new backend: no unit directory; the store is empty or holds a flat file a.index
InitEndpoint ==
    /\ fs = EndpointFs
    /\ metadata = <<>>
    /\ index = <<>>
    /\ current_index_name = None
    /\ current_index = None
    /\ disk = [n \in Names |-> Absent]
    /\ legacy \in {{}, {"a"}}
    /\ status = "idle"
    /\ pc = "idle"
    /\ req = NoReq
    /\ pd = PdIdle
    /\ sv = SvIdle
    /\ sr = SrIdle
    /\ ret = [op |-> "none", val |-> FALSE, arg |-> None]
    /\ TrackerInit
    /\ ManagerInit

NextEndpoint ==
    \/ \E d \in Paths : create_index(d)
    \/ ProcessDirectoryFile
    \/ ProcessDirectoryLine
    \/ ProcessDirectoryAbort
    \/ CreateNewIndexSave
    \/ SaveStateRmtree
    \/ SaveStateMkdir
    \/ SaveStateMetadata
    \/ SaveStateFaiss
    \/ SaveStateFail

SpecEndpoint == InitEndpoint /\ [][NextEndpoint]_vars

\* ------------------------------------------------------------------ SpecQuery
\* a source file whose first line is empty and whose second line starts with a marker:
\* chunk_file cuts it into the chunk "" and the chunk "@a"
BudgetFiles == <<File("", "m.py", <<NL, "@", "a">>)>>

BudgetFs == [p \in Paths |-> IF p = DirA THEN Some(BudgetFiles) ELSE NoDir]

\* a new CodeChat; the store is empty or holds a unit "a" with an entry of empty content
InitQuery ==
    /\ fs = BudgetFs
    /\ metadata = <<>>
    /\ index = <<>>
    /\ current_index_name = None
    /\ current_index = None
    /\ \E u \in {Absent,
                 Unit(Some(ToJson(<<chunk_metadata(File("", "m.py", <<>>), <<>>, 1, 1)>>)),
                      Some(<<Embedding(<<>>, <<"", "m.py">>, 1)>>), FALSE)} :
         disk = [n \in Names |-> IF n = "a" THEN u ELSE Absent]
    /\ legacy = {}
    /\ status = "idle"
    /\ pc = "idle"
    /\ req = NoReq
    /\ pd = PdIdle
    /\ sv = SvIdle
    /\ sr = SrIdle
    /\ ret = [op |-> "none", val |-> FALSE, arg |-> None]
    /\ TrackerInit
    /\ ManagerInit

NextQuery ==
    \/ process_file(DirA, BudgetFiles[1])
    \/ load_index("a")
    \/ \E q \in QueryTokens : search_similar(q)
    \/ \E q \in QueryTokens : chat_loop(q)
    \/ \E q \in QueryTokens : get_response(q)
    \/ \E q \in QueryTokens : process_message(q)
    \/ SearchSimilarFill

SpecQuery == InitQuery /\ [][NextQuery]_vars

\* ------------------------------------------------------------------ SpecTracker
\* the function names given to the tracker
Functions == {"f", "g", "h"}

\* the two setdefault tests and the two add calls of add_call_relationship
AddCall(caller, callee) ==
    LET c1 == IF caller \in DOMAIN callers THEN callers ELSE callers @@ (caller :> {})
        c2 == IF callee \in DOMAIN callees THEN callees ELSE callees @@ (callee :> {})
    IN  /\ callers' = [c1 EXCEPT ![caller] = @ \cup {callee}]
        /\ callees' = [c2 EXCEPT ![callee] = @ \cup {caller}]

\* add_call_relationship(caller, callee)
add_call_relationship(caller, callee) ==
    /\ AddCall(caller, callee)
    /\ calls' = calls \cup {<<caller, callee>>}
    /\ UNCHANGED <<managerVars, fs, metadata, index, current_index_name, current_index,
                   disk, legacy, status, pc, req, pd, sv, sr, ret>>

\* get_callers(function_name): self.callers.get(function_name, set())
get_callers(function_name) == Get(callers, function_name, {})

\* get_callees(function_name): self.callees.get(function_name, set())
get_callees(function_name) == Get(callees, function_name, {})

InitTracker ==
    /\ InitProgram
    /\ fs = [p \in Paths |-> NoDir]

NextTracker ==
    \E caller, callee \in Functions : add_call_relationship(caller, callee)

SpecTracker == InitTracker /\ [][NextTracker]_vars

\* ------------------------------------------------------------------ SpecChunker
\* the files given to the SmartChunker: a source file or a text file of any content
\* over a letter, a newline, a decorator sign and a space
ChunkerFiles ==
    {File("", n, c) : n \in {"m.py", "t.txt"}, c \in TextsUpTo({"a", NL, "@", SP}, MaxChars)}

\* the file of this run
ChunkerFile == fs[DirA][1][1]

InitChunker ==
    /\ InitProgram
    /\ \E f \in ChunkerFiles : fs = [p \in Paths |-> IF p = DirA THEN Some(<<f>>) ELSE NoDir]

NextChunker == process_file(DirA, ChunkerFile)

SpecChunker == InitChunker /\ [][NextChunker]_vars

\* ------------------------------------------------------------------ SpecChat
\* one CodeChat on a store that is empty or holds a unit "a" written by save_state
ChatNames == {"a", "b"}

InitChat ==
    /\ fs = StoreFs
    /\ metadata = <<>>
    /\ index = <<>>
    /\ current_index_name = None
    /\ current_index = None
    /\ \E u \in {Absent, Unit(Some(ToJson(SampleMeta)), Some(SampleVectors), FALSE)} :
         disk = [n \in Names |-> IF n = "a" THEN u ELSE Absent]
    /\ legacy = {}
    /\ status = "idle"
    /\ pc = "idle"
    /\ req = NoReq
    /\ pd = PdIdle
    /\ sv = SvIdle
    /\ sr = SrIdle
    /\ ret = [op |-> "none", val |-> FALSE, arg |-> None]
    /\ TrackerInit
    /\ ManagerInit

NextChat ==
    \/ \E n \in ChatNames : load_index(n)
    \/ \E d \in {DirA, DirB}, n \in ChatNames : create_new_index(d, n)
    \/ ProcessDirectoryFile
    \/ ProcessDirectoryLine
    \/ ProcessDirectoryAbort
    \/ CreateNewIndexSave
    \/ SaveStateRmtree
    \/ SaveStateMkdir
    \/ SaveStateMetadata
    \/ SaveStateFaiss
    \/ SaveStateFail

SpecChat == InitChat /\ [][NextChat]_vars

\* ------------------------------------------------------------------ SpecManager
\* the elements of a list
Range(list) == {list[i] : i \in 1..Len(list)}

\* list.remove(x): the first occurrence
RECURSIVE Remove(_, _)
Remove(list, x) ==
    IF list = <<>> THEN <<>>
    ELSE IF Head(list) = x THEN Tail(list)
    ELSE <<Head(list)>> \o Remove(Tail(list), x)

\* d[k] = v on a dict
Put(d, k, v) == [j \in DOMAIN d \cup {k} |-> IF j = k THEN v ELSE d[j]]

\* the index ids clients ask for: unit "a" is persisted, unit "b" is not
IndexIds == {"a", "b"}

\* process_message: the first key of active_connections whose list holds the
\* websocket (a websocket is in the list of one key at most), or None
SessionOf(websocket) ==
    LET keys == {k \in DOMAIN active_connections : websocket \in Range(active_connections[k])}
    IN  IF keys = {} THEN None ELSE CHOOSE k \in keys : TRUE

\* the test of process_message for a chat session
FindsChat(websocket) == SessionOf(websocket) # None /\ SessionOf(websocket) \in chats

\* manager.connect(websocket, index_id) in websocket_endpoint; the ingester of the
\* model is the one of self.chats["a"], the only chat that can be created
connect(websocket, index_id) ==
    /\ pc = "idle"
    /\ connected[websocket].at = "new"
    /\ \E accept \in {"ok", "raise"}, send \in {"ok", "raise"} :
         LET r == LoadState(disk[index_id], <<>>, <<>>)
             creates == index_id \notin chats
             failed == [at |-> "failed", index_id |-> index_id]
         IN  IF accept = "raise" \/ (creates /\ ~r.ok)
             THEN /\ connected' = [connected EXCEPT ![websocket] = failed]
                  /\ ret' = [op |-> "connect", val |-> FALSE, arg |-> index_id]
                  /\ UNCHANGED <<active_connections, chats, metadata, index, current_index>>
             ELSE /\ chats' = chats \cup {index_id}
                  /\ metadata' = IF creates THEN r.metadata ELSE metadata
                  /\ index' = IF creates THEN r.index ELSE index
                  /\ current_index' = IF creates THEN index_id ELSE current_index
                  /\ active_connections' = Put(active_connections, index_id, <<websocket>>)
                  /\ connected' = [connected EXCEPT ![websocket] =
                                     IF send = "ok" THEN [at |-> "chat", index_id |-> index_id]
                                     ELSE failed]
                  /\ ret' = [op |-> "connect", val |-> send = "ok", arg |-> index_id]
    /\ sv' = SvIdle
    /\ sr' = SrIdle
    /\ UNCHANGED <<trackerVars, progress_connections, fs, current_index_name, disk, legacy,
                   status, pc, req, pd>>

\* manager.connect_progress(websocket) in progress_endpoint
connect_progress(websocket) ==
    /\ pc = "idle"
    /\ connected[websocket].at = "new"
    /\ progress_connections' = Append(progress_connections, websocket)
    /\ connected' = [connected EXCEPT ![websocket] = [at |-> "progress", index_id |-> None]]
    /\ ret' = [op |-> "connect_progress", val |-> TRUE, arg |-> None]
    /\ sv' = SvIdle
    /\ sr' = SrIdle
    /\ UNCHANGED <<trackerVars, active_connections, chats, fs, metadata, index,
                   current_index_name, current_index, disk, legacy, status, pc, req, pd>>

\* active_connections after disconnect(websocket): the keys of the dict are index
\* ids, so `websocket in self.active_connections` is false and nothing is deleted
ActiveAfterDisconnect(websocket) ==
    IF websocket \in DOMAIN active_connections
    THEN [k \in DOMAIN active_connections \ {websocket} |-> active_connections[k]]
    ELSE active_connections

\* manager.disconnect(websocket), called when the endpoint of a connected client ends
disconnect(websocket) ==
    /\ pc = "idle"
    /\ connected[websocket].at \in {"chat", "progress"}
    /\ active_connections' = ActiveAfterDisconnect(websocket)
    /\ progress_connections' = IF websocket \in Range(progress_connections)
                               THEN Remove(progress_connections, websocket)
                               ELSE progress_connections
    /\ connected' = [connected EXCEPT ![websocket].at = "closed"]
    /\ ret' = [op |-> "disconnect", val |-> TRUE, arg |-> None]
    /\ sv' = SvIdle
    /\ sr' = SrIdle
    /\ UNCHANGED <<trackerVars, chats, fs, metadata, index, current_index_name,
                   current_index, disk, legacy, status, pc, req, pd>>

\* a message of type chat received from a connected client: manager.process_message
\* answers "Chat session not found" or goes on to the search
ReceiveChat(websocket, query_tokens) ==
    /\ connected[websocket].at = "chat"
    /\ IF FindsChat(websocket)
       THEN SearchSimilarEnter(query_tokens, "process_message")
       ELSE /\ pc = "idle"
            /\ ret' = [op |-> "process_message", val |-> FALSE,
                       arg |-> "Chat session not found"]
            /\ sv' = SvIdle
            /\ sr' = SrIdle
            /\ UNCHANGED <<trackerVars, managerVars, fs, metadata, index, current_index_name,
                           current_index, disk, legacy, status, pc, req, pd>>

InitManager ==
    /\ fs = StoreFs
    /\ metadata = <<>>
    /\ index = <<>>
    /\ current_index_name = None
    /\ current_index = None
    /\ disk = [n \in Names |->
                 IF n = "a" THEN Unit(Some(ToJson(SampleMeta)), Some(SampleVectors), FALSE)
                 ELSE Absent]
    /\ legacy = {}
    /\ status = "idle"
    /\ pc = "idle"
    /\ req = NoReq
    /\ pd = PdIdle
    /\ sv = SvIdle
    /\ sr = SrIdle
    /\ ret = [op |-> "none", val |-> FALSE, arg |-> None]
    /\ TrackerInit
    /\ ManagerInit

NextManager ==
    \/ \E w \in WS, i \in IndexIds : connect(w, i)
    \/ \E w \in WS : connect_progress(w)
    \/ \E w \in WS : disconnect(w)
    \/ \E w \in WS, q \in QueryTokens : ReceiveChat(w, q)
    \/ SearchSimilarFill

SpecManager == InitManager /\ [][NextManager]_vars

\* ------------------------------------------------------------------ C1
\* C1: after process_directory returns, metadata and index have the same length, the
\* vector at position i is the embedding of the chunk metadata[i] describes, and True
\* is returned only when both counts are equal and non-zero.
PdReturned == pc = "idle" /\ ret.op = "process_directory"

C1_VectorsMatchMetadata ==
    PdReturned =>
        /\ Len(metadata) = Len(index)
        /\ \A i \in 1..Len(metadata) :
             /\ index[i].emb = metadata[i].content
             /\ index[i].of = <<metadata[i].file, metadata[i].start_line>>
        /\ (ret.val = TRUE => Len(metadata) > 0 /\ Len(index) = Len(metadata))

\* a run in which the embedding of the chunk "aa" failed, so that it was carried into
\* the chunk of lines 1-2, and a chunk of a second file was added after it
C1_Witness ==
    /\ PdReturned
    /\ ret.val = TRUE
    /\ Len(metadata) = 2
    /\ metadata[1].content = <<"a", "a", NL, "a">>
    /\ metadata[1].end_line = 2
    /\ metadata[2].file = <<"", "n.py">>

\* ------------------------------------------------------------------ C2
\* C2: load_state of a unit whose metadata.json holds another number of entries than
\* index.faiss holds vectors reports failure (load_index does not make it available).
HasBothArtifacts(n) == disk[n].dir /\ disk[n].meta # NoFile /\ disk[n].faiss # NoFile

C2_MismatchedLoadFails ==
    (/\ pc = "idle"
     /\ ret.op \in {"load_state", "load_index"}
     /\ HasBothArtifacts(ret.arg)
     /\ Len(disk[ret.arg].meta[1]) # Len(disk[ret.arg].faiss[1]))
    => ret.val = FALSE

\* ------------------------------------------------------------------ C6
\* C6: a name is listed if and only if its unit directory holds metadata.json and
\* index.faiss (or the store holds its legacy flat form).
C6_ListedIffBothArtifacts ==
    \A n \in Names : n \in list_available_indices <=> (HasBothArtifacts(n) \/ n \in legacy)

\* ------------------------------------------------------------------ C7
\* C7: the creation endpoint starts no creation for a name whose unit is persisted or
\* for a path that does not exist, and its 404 answer changes neither the store nor
\* the progress status.
C7_RejectsDuplicateAndMissingPath ==
    [][/\ (pc = "idle" /\ req'.endpoint)
          => (~HasBothArtifacts(req'.name) /\ fs[req'.directory] # NoDir)
       /\ (pc = "idle" /\ pc' = "idle" /\ ret'.op = "create_index" /\ ret'.arg = "404")
          => (disk' = disk /\ legacy' = legacy /\ status' = status)]_vars

\* ------------------------------------------------------------------ C8
\* C8: after a save_state that failed past its validation, the store holds the complete
\* previous unit of that name or the complete new one.
C8_FailedSaveKeepsOldOrNew ==
    (pc = "idle" /\ sv.result = "False" /\ sv.at # "validation")
    => \/ disk[sv.name] = sv.old
       \/ disk[sv.name] = Unit(Some(ToJson(metadata)), Some(index), FALSE)

\* ------------------------------------------------------------------ C9
\* C9: a save_state called with an empty metadata list, an empty index or differing
\* counts returns False and leaves the store and current_index_name as they were.
SaveStateCalled == pc \in {"idle", "cni_save"} /\ sv'.name # None

C9_RefusedSaveTouchesNothing ==
    [][(SaveStateCalled
        /\ (Len(metadata) = 0 \/ Len(index) = 0 \/ Len(metadata) # Len(index)))
       => /\ sv'.result = "False"
          /\ pc' = "idle"
          /\ ret'.val = FALSE
          /\ disk' = disk
          /\ legacy' = legacy
          /\ current_index_name' = current_index_name]_vars

\* a save refused for differing counts while a unit of that name is in the store
C9_Witness ==
    /\ pc = "idle"
    /\ ret.op = "save_state"
    /\ sv.result = "False"
    /\ sv.at = "validation"
    /\ Len(metadata) > 0
    /\ Len(index) > 0
    /\ Len(metadata) # Len(index)
    /\ HasBothArtifacts(sv.name)

SearchReturned == pc = "idle" /\ ret.op = "search_similar" /\ ret.val = TRUE

RECURSIVE SumTokens(_)
SumTokens(chunks) ==
    IF chunks = <<>> THEN 0
    ELSE count_tokens(chunks[1].content) + SumTokens(Tail(chunks))

\* the source file and the start position a chunk record carries, under either key
FileOf(r) == Get(r, "file", Get(r, "file_path", Unknown))
HasPosition(r) == "start_line" \in DOMAIN r \/ "start_pos" \in DOMAIN r
PositionOf(r) == Get(r, "start_line", Get(r, "start_pos", 0))

\* the rank of the nearest candidate of file F
FirstRank(F) == CHOOSE i \in 1..Len(sr.cands) :
                    /\ FileOf(sr.cands[i]) = F
                    /\ \A j \in 1..(i - 1) : FileOf(sr.cands[j]) # F

\* ------------------------------------------------------------------ C3
\* C3: at every step of the fill loop and at the return, the running total is the sum
\* of the token counts of the chunks taken, and once a chunk is taken it is at most
\* available_tokens.
C3_TotalWithinBudget ==
    (pc = "sr_fill" \/ SearchReturned)
    => /\ sr.total_tokens = SumTokens(sr.results)
       /\ (sr.results # <<>> => sr.total_tokens <= sr.available_tokens)

\* a search that filled the budget exactly and left a candidate out
C3_Witness ==
    /\ SearchReturned
    /\ Len(sr.cands) = 3
    /\ Len(sr.results) = 2
    /\ sr.total_tokens = sr.available_tokens

\* ------------------------------------------------------------------ C4
\* C4: of every file the chunks returned are the first ones in position order among
\* the file's candidates, up to the first one that did not fit the budget left when
\* the file's turn came; files after it are still tried.
CandidatesOfFile(F) == LET OfF(r) == FileOf(r) = F IN SelectSeq(sr.cands, OfF)
ResultsOfFile(F) == LET OfF(r) == FileOf(r) = F IN SelectSeq(sr.results, OfF)

RECURSIVE InsertByPosition(_, _)
InsertByPosition(sorted, r) ==
    IF sorted = <<>> THEN <<r>>
    ELSE IF PositionOf(sorted[Len(sorted)]) <= PositionOf(r) THEN Append(sorted, r)
    ELSE Append(InsertByPosition(SubSeq(sorted, 1, Len(sorted) - 1), r), sorted[Len(sorted)])

RECURSIVE InPositionOrder(_)
InPositionOrder(chunks) ==
    IF chunks = <<>> THEN <<>>
    ELSE InsertByPosition(InPositionOrder(SubSeq(chunks, 1, Len(chunks) - 1)),
                          chunks[Len(chunks)])

TokensOfEarlierFiles(F) ==
    LET Earlier(r) == FirstRank(FileOf(r)) < FirstRank(F)
    IN  SumTokens(SelectSeq(sr.results, Earlier))

C4_StopsFileAtOverflowAndGoesOn ==
    SearchReturned =>
        \A F \in {FileOf(sr.cands[i]) : i \in 1..Len(sr.cands)} :
            LET wanted == InPositionOrder(CandidatesOfFile(F))
                got == ResultsOfFile(F)
            IN  (\A i \in 1..Len(wanted) : HasPosition(wanted[i]))
                => /\ got = SubSeq(wanted, 1, Len(got))
                   /\ Len(got) < Len(wanted)
                      => TokensOfEarlierFiles(F) + SumTokens(got)
                           + count_tokens(wanted[Len(got) + 1].content)
                         > sr.available_tokens

\* ------------------------------------------------------------------ C5
\* C5: the result lists the files in the order of their nearest candidates, the chunks
\* of one file next to each other and in ascending start position (start_line or
\* start_pos).
C5_FileThenPositionOrder ==
    SearchReturned =>
        \A i, j \in 1..Len(sr.results) :
            i < j =>
                LET a == sr.results[i]
                    b == sr.results[j]
                IN  IF FileOf(a) = FileOf(b)
                    THEN /\ \A m \in i..j : FileOf(sr.results[m]) = FileOf(a)
                         /\ (HasPosition(a) /\ HasPosition(b))
                            => PositionOf(a) < PositionOf(b)
                    ELSE FirstRank(FileOf(a)) < FirstRank(FileOf(b))

\* ------------------------------------------------------------------ C11
\* C11: every step of save_state(name) leaves every persisted unit of another name,
\* in directory form or in flat form, as it was.
C11_SaveTouchesOnlyItsUnit ==
    [][(pc \in {"sv_rmtree", "sv_mkdir", "sv_meta", "sv_faiss"})
       => ((\A n \in Names \ {sv.name} : disk'[n] = disk[n]) /\ legacy' = legacy)]_vars

\* ------------------------------------------------------------------ C12
\* the metadata entries of file f, in the order in which they were appended
EntriesOfFile(f) == LET OfF(m) == m.file = RelPath(f) IN SelectSeq(metadata, OfF)

RECURSIVE ConcatContent(_)
ConcatContent(entries) ==
    IF entries = <<>> THEN <<>>
    ELSE entries[1].content \o ConcatContent(Tail(entries))

\* C12: for every file the walk has finished with all embeddings successful, the
\* entries of the file were appended in ascending position, their ranges are lines
\* of the original file, contiguous from line 1 over every non-blank line, each
\* content is the text of its lines, and the contents concatenated are the file.
C12_ChunksReproduceFile ==
    (pc = "pd_file" /\ pd.embedded_all) =>
        \A k \in 1..pd.fi :
            LET f == pd.files[k]
                lines == Split(f.content)
                es == EntriesOfFile(f)
            IN  Strip(f.content) # <<>> =>
                  /\ es # <<>>
                  /\ es[1].start_line = 1
                  /\ \A i \in 1..Len(es) :
                       /\ es[i].start_line <= es[i].end_line
                       /\ es[i].end_line <= Len(lines)
                       /\ es[i].content = Join(SubSeq(lines, es[i].start_line, es[i].end_line))
                  /\ \A i \in 1..(Len(es) - 1) : es[i + 1].start_line = es[i].end_line + 1
                  /\ \A n \in 1..Len(lines) :
                       Strip(lines[n]) # <<>> => n <= es[Len(es)].end_line
                  /\ ConcatContent(es) = f.content

\* ------------------------------------------------------------------ C13
\* C13: with all embeddings successful, a file of at most ChunkSize tokens yields
\* exactly one chunk, a file of twice ChunkSize tokens whose lines are non-blank and
\* no longer than ChunkSize exactly two, and no chunk of more than one line is larger
\* than ChunkSize tokens.
C13_ChunkCountsAndSizes ==
    (pc = "pd_file" /\ pd.embedded_all) =>
        \A k \in 1..pd.fi :
            LET f == pd.files[k]
                es == EntriesOfFile(f)
            IN  Strip(f.content) # <<>> =>
                  /\ count_tokens(f.content) <= ChunkSize => Len(es) = 1
                  /\ (/\ count_tokens(f.content) = 2 * ChunkSize
                      /\ \A n \in 1..Len(Split(f.content)) :
                           /\ Strip(Split(f.content)[n]) # <<>>
                           /\ count_tokens(Split(f.content)[n]) <= ChunkSize)
                     => Len(es) = 2
                  /\ \A i \in 1..Len(es) :
                       \/ count_tokens(es[i].content) <= ChunkSize
                       \/ es[i].start_line = es[i].end_line

\* ------------------------------------------------------------------ C14
\* C14: every chunk in the index after process_directory is of a file with an allowed
\* extension whose name does not start with a dot and that lies under no hidden and
\* no excluded directory.
C14_OnlyVisibleSourceFiles ==
    PdReturned =>
        \A i \in 1..Len(index) :
            LET under == index[i].of[1][1]
                name == index[i].of[1][2]
            IN  /\ AllowedExt(name)
                /\ ~StartsWithDot(name)
                /\ ~StartsWithDot(under)
                /\ ~Excluded(under)

\* ------------------------------------------------------------------ C15
\* entry m with vector v is a chunk that a walk of directory d produces
ChunkOfDirectory(m, v, d) ==
    /\ DOMAIN m = {"file", "content", "start_line", "end_line", "language", "size"}
    /\ fs[d] # NoDir
    /\ \E j \in 1..Len(Walk(fs[d][1])) :
         LET f == Walk(fs[d][1])[j]
             lines == Split(Strip(f.content))
         IN  /\ m.file = RelPath(f)
             /\ 1 <= m.start_line /\ m.start_line <= m.end_line /\ m.end_line <= Len(lines)
             /\ m.content = Join(SubSeq(lines, m.start_line, m.end_line))
    /\ v = Embedding(m.content, m.file, m.start_line)

\* C15: when process_directory returns, metadata and index hold only chunks of the
\* given directory, each once, whatever the ingester held before; for a directory
\* that does not exist (the call returns at once) it returns failure and both are
\* empty.
C15_ProcessDirectoryRebuilds ==
    [][PdReturned' =>
         /\ Len(metadata') = Len(index')
         /\ \A i \in 1..Len(metadata') : ChunkOfDirectory(metadata'[i], index'[i], DirA)
         /\ \A i, j \in 1..Len(metadata') :
              i # j => <<metadata'[i].file, metadata'[i].start_line>>
                       # <<metadata'[j].file, metadata'[j].start_line>>
         /\ pc = "idle" => (ret'.val = FALSE /\ metadata' = <<>> /\ index' = <<>>)]_vars

\* a successful ingest by an ingester that held other entries when it was called
C15_Witness ==
    /\ PdReturned
    /\ ret.arg = "held"
    /\ ret.val = TRUE
    /\ Len(metadata) = 2

\* process_directory of a directory that does not exist, called on an ingester that
\* held entries
C15_WitnessMissingDirectory ==
    /\ PdReturned
    /\ ret.arg = "held"
    /\ ret.val = FALSE
    /\ fs[DirB] = NoDir
    /\ metadata = <<>>
    /\ pd.files_processed = 0

\* ------------------------------------------------------------------ C16
\* C16: the save_state of create_new_index gets past its validation, to the removal
\* and the writing of the unit directory, only when process_directory returned True.
C16_SavesOnlySuccessfulIngest ==
    (req.fn = "create_new_index" /\ pc \in {"sv_rmtree", "sv_mkdir", "sv_meta", "sv_faiss"})
    => (ret.op = "process_directory" /\ ret.val = TRUE)

\* ------------------------------------------------------------------ C17
\* search_similar has ended, with a list or with an exception
SearchEnded == pc = "idle" /\ ret.op = "search_similar"

\* C17: search_similar on an index of zero vectors returns the empty list and does
\* not request an embedding.
C17_EmptyIndexNoEmbedding ==
    (SearchEnded /\ Len(index) = 0)
    => (ret.val = TRUE /\ sr.results = <<>> /\ ret.arg = None)

\* a search on an ingester left without vectors
C17_Witness ==
    /\ SearchEnded
    /\ Len(index) = 0
    /\ ret.val = TRUE
    /\ sr.results = <<>>

\* ------------------------------------------------------------------ C18
\* C18: a search that got its query embedding and computed an available_tokens of
\* zero or less returns the empty list, whatever the index holds.
C18_NoBudgetNoChunks ==
    (SearchEnded /\ ret.val = TRUE /\ ret.arg # None /\ sr.available_tokens <= 0)
    => sr.results = <<>>

\* ------------------------------------------------------------------ C19
\* C19: when the embedding call for the query fails (the only way a search on a
\* non-empty index ends in the step that began it), search_similar raises instead of
\* returning a list, no result is collected, metadata and index are unchanged, and
\* each caller ends with an error: chat_loop prints "Error", get_response raises,
\* process_message sends a message of type error
C19_EmbeddingFailureRaises ==
    [][(pc = "idle" /\ pc' = "idle" /\ ret'.op \in Callers \cup {"search_similar"} /\ ~IndexIsEmpty(index))
       => (ret'.val = FALSE /\ sr'.results = <<>> /\ metadata' = metadata /\ index' = index /\ ret'.arg = (CASE ret'.op = "search_similar" -> "embedding requested" [] ret'.op = "chat_loop" -> "Error" [] ret'.op = "get_response" -> "raise" [] OTHER -> "type: error"))]_vars

\* chat_loop has printed "Error" for a query on a loaded, non-empty index
C19_Witness ==
    pc = "idle" /\ ret.op = "chat_loop" /\ ret.arg = "Error" /\ ~IndexIsEmpty(index) /\ sr.results = <<>>

\* ------------------------------------------------------------------ C20
\* a step of a search: its first step, a step of the fill loop, or its return
SearchStep == pc = "sr_fill" \/ pc' = "sr_fill" \/ (pc = "idle" /\ pc' = "idle" /\ ret'.op = "search_similar")

\* r is a copy of stored record m that carries distance d
IsCopyWithDistance(r, m, d) ==
    /\ DOMAIN r = DOMAIN m \cup {"distance"}
    /\ r["distance"] = d
    /\ \A k \in DOMAIN m : r[k] = m[k]

\* results are copies of the records at distinct positions of md, each carrying the
\* distance (the rank) of one of the k nearest hits
CopiesOfDistinctHits(results, md, k) ==
    \E at \in [1..Len(results) -> 1..Len(md)] :
      /\ \A x, y \in 1..Len(results) : x # y => at[x] # at[y]
      /\ \A x \in 1..Len(results) :
           \E d \in 1..k : IsCopyWithDistance(results[x], md[at[x]], d)

ChunkEmbeddingFails ==
    /\ pc = "pd_line"
    /\ LET chunk_text == Join(Append(pd.current_chunk, pd.lines[pd.i + 1]))
       IN  /\ Len(chunk_text) >= ChunkSize \/ pd.i + 1 = Len(pd.lines)
           /\ Strip(chunk_text) # <<>>
    /\ metadata' = metadata

\* C21: when the embedding call for a chunk of process_directory fails, exactly that
\* chunk is skipped: no vector and no metadata entry is added, the walk goes on, and
\* the lines of the chunk are not carried into a later chunk (the buffer is empty
\* after the step).
C21_FailedChunkIsSkipped ==
    [][ChunkEmbeddingFails => (index' = index /\ pc' \in {"pd_line", "pd_file"} /\ pd'.current_chunk = <<>>)]_vars

\* ------------------------------------------------------------------ C22
\* the ingester holds what a walk of DirA leaves
BuiltByWalk ==
    /\ Len(metadata) = Len(index)
    /\ \A i \in 1..Len(metadata) : ChunkOfDirectory(metadata[i], index[i], DirA)

\* C22: after process_directory every metadata entry names its source file under
\* the key file_path, and every result search_similar returns from such entries has
\* the keys file_path, content and distance.
C22_EntriesNameFilePath ==
    /\ PdReturned => \A i \in 1..Len(metadata) : "file_path" \in DOMAIN metadata[i]
    /\ (SearchReturned /\ BuiltByWalk)
         => \A x \in 1..Len(sr.results) :
              {"file_path", "content", "distance"} \subseteq DOMAIN sr.results[x]

\* ------------------------------------------------------------------ C23
\* C23: after any sequence of add_call_relationship calls, get_callers(f) is the set
\* of functions recorded as calling f and get_callees(f) is the set of functions f
\* was recorded as calling, for every function name f.
C23_CallersAndCallees ==
    \A f \in Functions :
      /\ get_callers(f) = {c \in Functions : <<c, f>> \in calls}
      /\ get_callees(f) = {c \in Functions : <<f, c>> \in calls}

\* ------------------------------------------------------------------ C24
\* line starts, after strip, with a boundary marker of the extension of file name
IsBoundaryLine(line, name) ==
    \E marker \in language_markers(Ext(name)) : StartsWith(Strip(line), marker)

\* C24: in the metadata produced by process_directory (every embedding call having
\* succeeded) a line that starts with a boundary marker of the file's extension
\* occurs in a chunk only as its first line.
C24_MarkerLineStartsChunk ==
    (PdReturned /\ ret.val /\ BuiltByWalk)
      => \A i \in 1..Len(metadata) :
           LET lines == Split(metadata[i].content)
           IN  \A j \in 2..Len(lines) : ~IsBoundaryLine(lines[j], metadata[i].file[2])

\* ------------------------------------------------------------------ C25
\* the lines of each chunk, and the line of the content at which chunk j starts
LinesOfChunks(chunks) == [j \in 1..Len(chunks) |-> Split(chunks[j].content)]

RECURSIVE LinesBefore(_, _)
LinesBefore(chunks, j) ==
    IF j <= 1 THEN 0 ELSE LinesBefore(chunks, j - 1) + Len(Split(chunks[j - 1].content))

\* the chunk contents joined with newlines
RECURSIVE JoinChunks(_)
JoinChunks(chunks) ==
    IF chunks = <<>> THEN <<>>
    ELSE IF Len(chunks) = 1 THEN chunks[1].content
    ELSE chunks[1].content \o <<NL>> \o JoinChunks(Tail(chunks))

\* chunks are consecutive non-empty runs of lines that cover lines exactly
ConsecutiveRuns(chunks, lines) ==
    /\ Len(chunks) >= 1
    /\ LinesBefore(chunks, Len(chunks) + 1) = Len(lines)
    /\ \A j \in 1..Len(chunks) :
         LET from == LinesBefore(chunks, j) + 1
             to == LinesBefore(chunks, j + 1)
         IN  /\ from <= to
             /\ to <= Len(lines)
             /\ chunks[j].content = Join(SubSeq(lines, from, to))

\* C25: for non-blank content of a supported extension the chunks of chunk_file are
\* consecutive non-empty runs of the content's lines, in order, no line dropped or
\* repeated, and the chunk contents joined with newlines are the content; blank
\* content and unsupported extensions yield no chunks.
C25_ChunksPartitionLines ==
    LET f == ChunkerFile
        chunks == chunk_file(DirA, f, ChunkSize)
    IN  IF Ext(f.name) \in SupportedExt /\ Strip(f.content) # <<>>
        THEN /\ ConsecutiveRuns(chunks, Split(f.content))
             /\ JoinChunks(chunks) = f.content
        ELSE chunks = <<>>

\* process_file has stored the three chunks of a source file
C25_Witness ==
    /\ pc = "idle" /\ ret.op = "process_file"
    /\ Ext(ChunkerFile.name) \in SupportedExt
    /\ metadata = chunk_file(DirA, ChunkerFile, ChunkSize)
    /\ Len(metadata) = 3

\* ------------------------------------------------------------------ C26
\* the token count _find_chunk_boundaries accumulates for a run of lines
RECURSIVE AccumulatedTokens(_)
AccumulatedTokens(lines) ==
    IF lines = <<>> THEN 0
    ELSE count_tokens(Append(lines[1], NL)) + AccumulatedTokens(Tail(lines))

\* line k of the content has more tokens than the maximum
Oversized(lines, k) == count_tokens(Append(lines[k], NL)) > ChunkSize

\* C26: every chunk of _find_chunk_boundaries has an accumulated token count of at
\* most max_tokens unless it is one line, and a line with more tokens than
\* max_tokens is a chunk of its own, whole.
C26_ChunksWithinMaxTokens ==
    LET f == ChunkerFile
        lines == Split(f.content)
        chunks == find_chunk_boundaries(f.content, Ext(f.name), ChunkSize)
        runs == LinesOfChunks(chunks)
    IN  /\ \A j \in 1..Len(chunks) :
             Len(runs[j]) = 1 \/ AccumulatedTokens(runs[j]) <= ChunkSize
        /\ \A k \in 1..Len(lines) :
             Oversized(lines, k)
               => \E j \in 1..Len(chunks) :
                    LinesBefore(chunks, j) + 1 = k /\ runs[j] = <<lines[k]>>

\* process_file has stored the chunks of a source file with an oversized line
\* between two other lines
C26_Witness ==
    /\ pc = "idle" /\ ret.op = "process_file"
    /\ Ext(ChunkerFile.name) \in SupportedExt
    /\ metadata = chunk_file(DirA, ChunkerFile, ChunkSize)
    /\ Len(metadata) = 3
    /\ Oversized(Split(ChunkerFile.content), 2)

\* ------------------------------------------------------------------ C27
\* C27: between the calls of load_index and create_new_index on one CodeChat,
\* whenever current_index is a name n, unit n is persisted and the ingester holds
\* its metadata and its vectors.
C27_CurrentIndexIsLoaded ==
    (pc = "idle" /\ current_index # None)
      => /\ HasBothArtifacts(current_index)
         /\ metadata = FromJson(disk[current_index].meta[1])
         /\ index = disk[current_index].faiss[1]

\* ------------------------------------------------------------------ C28
\* C28: a load_state that returns False leaves metadata and index as they were.
C28_FailedLoadKeepsState ==
    [][(pc = "idle" /\ pc' = "idle" /\ ret'.op = "load_state" /\ ~ret'.val) => (metadata' = metadata /\ index' = index)]_vars

\* ------------------------------------------------------------------ C29
\* C29: when an index-creation request that moved the progress status to 'starting'
\* (every request but the one answered 404) has returned, the status is 'completed'
\* or 'failed', and it is 'completed' exactly when the request succeeded.
C29_StatusLeavesStarting ==
    (pc = "idle" /\ ret.op = "create_index" /\ ret.arg # "404")
      => /\ status \in {"completed", "failed"}
         /\ status = "completed" <=> ret.val

\* ------------------------------------------------------------------ C30
\* C30: a websocket whose connect succeeded and that has not disconnected is in the
\* active-connection list of its index_id and process_message finds its chat
\* session; a websocket that has disconnected is in no active-connection list and
\* not in the progress-connection list.
C30_ConnectionsStayRegistered ==
    \A w \in WS :
      /\ connected[w].at = "chat"
           => /\ connected[w].index_id \in DOMAIN active_connections
              /\ w \in Range(active_connections[connected[w].index_id])
              /\ FindsChat(w)
      /\ connected[w].at = "closed"
           => /\ \A k \in DOMAIN active_connections : w \notin Range(active_connections[k])
              /\ w \notin Range(progress_connections)

====
